---- MODULE Spec2Model ----
(***************************************************************************)
(* Model of the Gemini task runner: the shell wrapper gemini-research.sh,  *)
(* main() of gemini-runner.js with its attempt loop, the two mode          *)
(* procedures runProMode / runDeepResearchMode, the shared setupPage, the  *)
(* response watcher waitForDeepResearchResponse, and the Telegram          *)
(* notifier.  Every await on the browser driver is a step that either      *)
(* returns or throws.  A second specification, SetupSpec, models the plist *)
(* generation and installation of setup.sh.                                *)
(***************************************************************************)
EXTENDS Integers, Sequences, FiniteSets, TLC

(* ---- program constants ------------------------------------------------ *)
maxRetries == 5
startResearchTimeout == 3 * 60 * 1000
responseTimeout == 2 * 60 * 1000
highTrafficWait == 5 * 60 * 1000
maxWait == 30000
urlCheckInterval == 500
checkInterval == 2000

(* ---- bounds of the model ---------------------------------------------- *)
\* Redo clicks the environment lets one watcher run perform.
MaxRedo == 1
\* Longest task name, in characters, in the tasks.yaml given to setup.sh.
MaxNameLen == 2

(* ---- inputs ------------------------------------------------------------ *)
Modes == {"pro", "deep-research", "fast", "unset"}
NotifyValues == {"true", "false", "undefined"}
FileStates == {"ok", "blank", "missing"}
\* URLs page.url() can report: the landing URL and a conversation URL.
Urls == {"https://gemini.google.com/app", "https://gemini.google.com/app/abc123"}
\* What one page.content() snapshot can contain.
Contents == {"none", "success", "hightraffic", "both"}

VARIABLES
  argv,          \* [via, loginOnly, taskGiven]: how the run was invoked
  config,        \* the tasks.yaml entry looked up for the task name
  traffic,       \* "finite": the service shows high traffic at most MaxRedo
                 \* times per attempt; "endless": it may show it every time
  promptFile,    \* state of the prompt file when the run starts
  pc,            \* position of the process
  task,          \* the Task record main() holds after getTask
  context,       \* browser context: "none", "open", "closed"
  contextCloseCalls,
  attempt,       \* main()'s attempt counter
  result,        \* the result of the last procedure invocation
  page,          \* page of the running invocation: "none", "open", "closed"
  pageCloseCalls,\* page.close() calls made by the running invocation
  openPages,     \* pages open in the browser context
  elapsed,       \* the polling loops' elapsed counter
  chatUrl,       \* runProMode's chatUrl
  redoClicks,    \* Redo clicks of the running watcher
  selection,     \* how selectProModel went, until runProMode reads the prompt
  notifs,        \* sequence of notifications handed to the Notifier
  sent,          \* what sendTelegramMessage returned for the last of them
  logged,        \* set of log lines main() has written
  exitCode,      \* exit code of the node process, -1 while it runs
  pendingExit,   \* the code process.exit will get after context.close()
  wrapperExit,   \* exit code of the shell wrapper, -1 while it runs
  invocations,   \* number of mode procedure invocations so far
  outcomes,      \* how each invocation ended: "success", "retry", "threw"
  caught,        \* error.message held by a procedure's catch block
  hist,          \* what the invocation has done, until main() moves on from it
  thrownIn,      \* where the exception main().catch received came from
  tasks,         \* setup.sh: the task names of tasks.yaml, in order
  generated,     \* setup.sh: how many tasks forEach has handled
  plistsDir,     \* setup.sh: the files in plists/, each with the task it runs
  launchAgents,  \* the gemini-task plists in ~/Library/LaunchAgents
  setupPc        \* position of setup.sh

vars == <<argv, config, traffic, promptFile, pc, task, context, contextCloseCalls, attempt,
          result, page, pageCloseCalls, openPages, elapsed, chatUrl, redoClicks,
          selection, notifs, sent, logged, exitCode, pendingExit, wrapperExit, invocations,
          outcomes, caught, hist, thrownIn, tasks, generated, plistsDir, launchAgents,
          setupPc>>

inputVars == <<argv, config, traffic>>
setupVars == <<tasks, generated, plistsDir, launchAgents, setupPc>>
browserVars == <<context, contextCloseCalls, page, pageCloseCalls, openPages>>
loopVars == <<attempt, result, invocations, outcomes>>
pollVars == <<elapsed, chatUrl, redoClicks, selection>>
exitVars == <<exitCode, pendingExit, wrapperExit>>
fileVars == <<promptFile>>
notifVars == <<notifs, sent>>

NoTask == [name |-> "", mode |-> "unset", promptFileSet |-> FALSE, notify |-> "undefined"]
\* wtrace: the watcher's states in order; snapshots: page.content() results
\* of the current polling window; redo: Redo clicks; urlReads: page.url()
\* reads inside the URL loop; lastUrl: what page.url() returned last;
\* startWait: how the wait for "Start research" ended; startClick: whether
\* the control was clicked; content: the last snapshot; catchRan: whether
\* the procedure's catch block ran.
NoHist == [wtrace |-> <<>>, snapshots |-> 0, redo |-> 0, urlReads |-> 0, lastUrl |-> "",
           startWait |-> "none", startClick |-> FALSE, catchRan |-> FALSE,
           content |-> "none"]
NoResult == [success |-> FALSE, retry |-> FALSE, reason |-> "none", chatUrl |-> ""]

Configs ==
  [kind : {"noconfig", "notfound"}, mode : {"unset"}, promptFileSet : {FALSE},
   scheduleOk : {FALSE}, notify : {"undefined"}]
  \cup
  [kind : {"task"}, mode : Modes, promptFileSet : BOOLEAN, scheduleOk : BOOLEAN,
   notify : NotifyValues]

\* Only one invalid field at a time is explored beside the valid entries.
ConfigOk(c) ==
  c.kind = "task" =>
    Cardinality({f \in {"mode", "promptFile", "schedule"} :
                   \/ f = "mode" /\ c.mode \notin {"pro", "deep-research"}
                   \/ f = "promptFile" /\ ~c.promptFileSet
                   \/ f = "schedule" /\ ~c.scheduleOk}) <= 1

\* The runner before it starts.
RunnerInit ==
  /\ argv \in [via : {"wrapper", "direct"}, loginOnly : BOOLEAN, taskGiven : BOOLEAN]
  /\ config \in {c \in Configs : ConfigOk(c)}
  /\ promptFile \in FileStates
  /\ pc = IF argv.via = "wrapper" THEN "wrapper" ELSE "main"
  /\ task = NoTask
  /\ context = "none"
  /\ contextCloseCalls = 0
  /\ attempt = 0
  /\ result = NoResult
  /\ page = "none"
  /\ pageCloseCalls = 0
  /\ openPages = 0
  /\ elapsed = 0
  /\ chatUrl = ""
  /\ redoClicks = 0
  /\ selection = "none"
  /\ notifs = <<>>
  /\ sent = "none"
  /\ logged = {}
  /\ exitCode = -1
  /\ pendingExit = -1
  /\ wrapperExit = -1
  /\ invocations = 0
  /\ outcomes = <<>>
  /\ caught = "none"
  /\ hist = NoHist
  /\ thrownIn = "none"

\* A run of the runner; setup.sh is not running.
Init ==
  /\ RunnerInit
  /\ traffic = "finite"
  /\ tasks = <<>>
  /\ generated = 0
  /\ plistsDir = {}
  /\ launchAgents = {}
  /\ setupPc = "idle"

(* ---- helpers ----------------------------------------------------------- *)
Log(line) == logged' = logged \cup {line}

NotifyOnlyIfTrue(t) == t.notify = "true"
NotifyAlways(t) == TRUE

\* task.notify !== false
NotifyEnabled(t) == t.notify # "false"

\* What can happen to one message: the Bot API answers 200, answers another
\* status, the request fails, or no bot token / chat id is configured.
Deliveries == {"200", "non200", "error", "nocreds"}

RejectsUnlessDelivered(d) == d # "200"

\* sendTelegramMessage builds its promise with resolve only: no delivery
\* outcome makes it reject.
Rejects(d) == FALSE

\* The boolean sendTelegramMessage resolves to.
sendTelegramMessage(d) == d = "200"

\* lib/telegram.js: notifySuccess / notifyFailure hand one message to
\* sendTelegramMessage and return what it returns.
\* The field "at" records how many invocations had started when it was sent.
notifySuccess(taskName, url, d) ==
  /\ notifs' = Append(notifs, [kind |-> "success", task |-> taskName, detail |-> url,
                               at |-> invocations])
  /\ sent' = sendTelegramMessage(d)

notifyFailure(taskName, error, d) ==
  /\ notifs' = Append(notifs, [kind |-> "failure", task |-> taskName, detail |-> error,
                               at |-> invocations])
  /\ sent' = sendTelegramMessage(d)

(* ---- gemini-research.sh ------------------------------------------------ *)
\* The wrapper parses its arguments and starts node, or prints the usage.
WrapperStart ==
  /\ pc = "wrapper"
  /\ IF argv.loginOnly \/ argv.taskGiven
       THEN /\ pc' = "main"
            /\ UNCHANGED wrapperExit
       ELSE /\ pc' = "done"
            /\ wrapperExit' = 1
  /\ UNCHANGED <<setupVars, inputVars, fileVars, hist, task, browserVars, loopVars, pollVars, notifVars,
                 logged, exitCode, pendingExit, caught, thrownIn>>

\* exit ${PIPESTATUS[0]}
WrapperExit ==
  /\ pc = "exited"
  /\ argv.via = "wrapper"
  /\ wrapperExit' = exitCode
  /\ pc' = "done"
  /\ UNCHANGED <<setupVars, inputVars, fileVars, hist, task, browserVars, loopVars, pollVars, notifVars,
                 logged, exitCode, pendingExit, caught, thrownIn>>

(* ---- main(): start-up --------------------------------------------------- *)
\* An exception leaves main() and reaches main().catch.
Throw(where) ==
  /\ thrownIn' = where
  /\ pc' = "catch"

\* await of a notifier call in main(): on to the next statement, or out of
\* main() if the promise rejects.
AwaitNotify(d, next) ==
  IF Rejects(d) THEN Throw("notify")
  ELSE /\ pc' = next
       /\ UNCHANGED thrownIn

\* Where main() goes once the browser context is there.
AfterLaunch ==
  IF argv.loginOnly THEN "login_newPage"
  ELSE IF ~argv.taskGiven THEN "closing"
  ELSE "getTask"

Launch ==
  /\ pc = "main"
  /\ \/ /\ context' = "open"
        /\ pc' = AfterLaunch
        /\ IF AfterLaunch = "closing"
             THEN /\ logged' = logged \cup {"Starting Gemini automation",
                                                "ERROR: --task argument is required"}
                  /\ pendingExit' = 1
             ELSE /\ Log("Starting Gemini automation")
                  /\ UNCHANGED pendingExit
        /\ UNCHANGED thrownIn
     \/ /\ Throw("launch")
        /\ Log("Starting Gemini automation")
        /\ UNCHANGED <<context, pendingExit>>
  /\ UNCHANGED <<setupVars, inputVars, fileVars, hist, task, contextCloseCalls, page, pageCloseCalls,
                 openPages, loopVars, pollVars, notifVars, exitCode, wrapperExit, caught>>

\* Login-only mode: open a page for the manual login.
LoginNewPage ==
  /\ pc = "login_newPage"
  /\ \/ /\ openPages' = openPages + 1
        /\ pc' = "login_wait"
        /\ UNCHANGED thrownIn
     \/ /\ Throw("login")
        /\ \E opened \in BOOLEAN : openPages' = IF opened THEN openPages + 1 ELSE openPages
  /\ UNCHANGED <<setupVars, inputVars, fileVars, hist, task, context, contextCloseCalls, page,
                 pageCloseCalls, loopVars, pollVars, notifVars, logged, exitVars, caught>>

\* The user closes the browser; main() returns and node ends with code 0.
LoginWait ==
  /\ pc = "login_wait"
  /\ context' = "closed"
  /\ openPages' = 0
  /\ Log("Browser closed. Profile saved.")
  /\ exitCode' = 0
  /\ pc' = "exited"
  /\ UNCHANGED <<setupVars, inputVars, fileVars, hist, task, contextCloseCalls, page, pageCloseCalls,
                 loopVars, pollVars, notifVars, pendingExit, wrapperExit, caught, thrownIn>>

GetTaskErrorNoMode(c) ==
  IF c.kind = "noconfig" THEN "Configuration file not found"
  ELSE IF c.kind = "notfound" THEN "Task not found"
  ELSE IF ~c.promptFileSet THEN "Missing promptFile"
  ELSE IF ~c.scheduleOk THEN "Invalid schedule"
  ELSE ""

\* lib/config.js getTask: the error it throws for a config entry, "" for none.
GetTaskError(c) ==
  IF c.kind = "noconfig" THEN "Configuration file not found"
  ELSE IF c.kind = "notfound" THEN "Task not found"
  ELSE IF c.mode \notin {"pro", "deep-research"} THEN "Invalid mode"
  ELSE IF ~c.promptFileSet THEN "Missing promptFile"
  ELSE IF ~c.scheduleOk THEN "Invalid schedule"
  ELSE ""

GetTask ==
  /\ pc = "getTask"
  /\ IF GetTaskError(config) = ""
       THEN /\ task' = [name |-> "t", mode |-> config.mode,
                        promptFileSet |-> config.promptFileSet, notify |-> config.notify]
            /\ Log("Loaded task")
            /\ pc' = "validate"
            /\ UNCHANGED pendingExit
       ELSE /\ Log("ERROR: " \o GetTaskError(config))
            /\ pendingExit' = 1
            /\ pc' = "closing"
            /\ UNCHANGED task
  /\ UNCHANGED <<setupVars, inputVars, fileVars, hist, browserVars, loopVars, pollVars, notifVars, exitCode,
                 wrapperExit, caught, thrownIn>>

\* readPrompt: the error it throws for a file state, "" when it returns content.
ReadPromptError(f) ==
  IF f = "missing" THEN "Prompt file not found"
  ELSE IF f = "blank" THEN "Prompt file is empty"
  ELSE ""

\* Validate prompt file exists, before the first attempt.
ValidatePrompt ==
  /\ pc = "validate"
  /\ IF ReadPromptError(promptFile) = ""
       THEN /\ attempt' = 1
            /\ pc' = "loopHead"
            /\ UNCHANGED <<logged, notifVars, pendingExit, thrownIn>>
       ELSE /\ Log("ERROR: " \o ReadPromptError(promptFile))
            /\ IF NotifyEnabled(task)
                 THEN \E d \in Deliveries :
                        /\ notifyFailure(task.name, ReadPromptError(promptFile), d)
                        /\ AwaitNotify(d, "closing")
                 ELSE /\ pc' = "closing"
                      /\ UNCHANGED <<notifVars, thrownIn>>
            /\ pendingExit' = 1
            /\ UNCHANGED attempt
  /\ UNCHANGED <<setupVars, inputVars, fileVars, hist, task, browserVars, result, invocations, outcomes,
                 pollVars, exitCode, wrapperExit, caught>>

\* await context.close(); process.exit(code)
ContextClose ==
  /\ pc = "closing"
  /\ contextCloseCalls' = contextCloseCalls + 1
  /\ \/ /\ context' = "closed"
        /\ openPages' = 0
        /\ exitCode' = pendingExit
        /\ pc' = "exited"
        /\ UNCHANGED thrownIn
     \/ /\ Throw("contextClose")
        /\ UNCHANGED <<context, openPages, exitCode>>
  /\ UNCHANGED <<setupVars, inputVars, fileVars, hist, task, page, pageCloseCalls, loopVars, pollVars,
                 notifVars, logged, pendingExit, wrapperExit, caught>>

\* main().catch: log the fatal error and exit 1.
MainCatch ==
  /\ pc = "catch"
  /\ Log("FATAL ERROR")
  /\ exitCode' = 1
  /\ hist' = NoHist
  /\ pc' = "exited"
  /\ UNCHANGED <<setupVars, inputVars, fileVars, task, browserVars, loopVars, pollVars, notifVars,
                 pendingExit, wrapperExit, caught, thrownIn>>

(* ---- main(): the attempt loop ------------------------------------------ *)
LoopCondOffByOne == attempt <= maxRetries + 1

\* while (attempt <= CONFIG.maxRetries)
LoopCond == attempt <= maxRetries

\* The condition of the loop and the dispatch on task.mode; a procedure's
\* first await is context.newPage() in setupPage.
LoopHead ==
  /\ pc = "loopHead"
  /\ IF ~LoopCond
       THEN /\ pc' = "afterLoop"
            /\ UNCHANGED <<invocations, page, pageCloseCalls, pendingExit, logged, hist>>
       ELSE IF task.mode \in {"pro", "deep-research"}
         THEN /\ invocations' = invocations + 1
              /\ page' = "none"
              /\ pageCloseCalls' = 0
              /\ hist' = NoHist
              /\ pc' = "setup_newPage"
              /\ UNCHANGED <<pendingExit, logged>>
         ELSE /\ Log("ERROR: Unknown mode")
              /\ pendingExit' = 1
              /\ pc' = "closing"
              /\ UNCHANGED <<invocations, page, pageCloseCalls, hist>>
  /\ UNCHANGED <<setupVars, inputVars, fileVars, task, context, contextCloseCalls, openPages,
                 attempt, result, outcomes, pollVars, notifVars, exitCode, wrapperExit,
                 caught, thrownIn>>

\* What main() does with a procedure's result.
ResultBranch(r) ==
  IF r.success THEN "success"
  ELSE IF ~r.retry THEN "break"
  ELSE "retry"

NextAttemptSkips == attempt + 2

\* attempt++
NextAttempt == attempt + 1

LoopResult ==
  /\ pc = "loopResult"
  /\ CASE ResultBranch(result) = "success" ->
            /\ Log("Closing browser, done")
            /\ pendingExit' = 0
            /\ pc' = "closing"
            /\ UNCHANGED attempt
       [] ResultBranch(result) = "break" ->
            /\ Log("FAILED: " \o result.reason)
            /\ pc' = "afterLoop"
            /\ UNCHANGED <<attempt, pendingExit>>
       [] OTHER ->
            /\ Log("RETRY")
            /\ attempt' = NextAttempt
            /\ pc' = "pause"
            /\ UNCHANGED pendingExit
  /\ hist' = NoHist
  /\ UNCHANGED <<setupVars, inputVars, fileVars, task, browserVars, result, invocations, outcomes,
                 pollVars, notifVars, exitCode, wrapperExit, caught, thrownIn>>

\* Brief pause between retries.
Pause ==
  /\ pc = "pause"
  /\ pc' = "loopHead"
  /\ UNCHANGED <<setupVars, inputVars, fileVars, hist, task, browserVars, loopVars, pollVars, notifVars,
                 logged, exitVars, caught, thrownIn>>

GiveUpMessageAttempt == "Failed after " \o ToString(attempt) \o " attempts"

\* The message of the notification sent after the loop.
GiveUpMessage == "Failed after " \o ToString(maxRetries) \o " attempts"

\* After the loop: give up, notify the failure, close and exit 1.
AfterLoop ==
  /\ pc = "afterLoop"
  /\ Log("FAILED: Giving up")
  /\ IF NotifyEnabled(task)
       THEN \E d \in Deliveries :
              /\ notifyFailure(task.name, GiveUpMessage, d)
              /\ AwaitNotify(d, "closing")
       ELSE /\ pc' = "closing"
            /\ UNCHANGED <<notifVars, thrownIn>>
  /\ pendingExit' = 1
  /\ UNCHANGED <<setupVars, inputVars, fileVars, hist, task, browserVars, loopVars, pollVars, exitCode,
                 wrapperExit, caught>>

(* ---- how a procedure invocation ends ----------------------------------- *)
\* What no step of a mode procedure changes.
mainVars == <<setupVars, inputVars, fileVars, task, context, contextCloseCalls, attempt,
              invocations, logged, exitVars>>
procVars == <<mainVars, hist>>
localVars == <<elapsed, chatUrl, redoClicks, selection, caught>>
endVars == <<result, outcomes, thrownIn>>
pageVars == <<page, pageCloseCalls, openPages>>

FailureNoRetry(reason) ==
  [success |-> FALSE, retry |-> FALSE, reason |-> reason, chatUrl |-> ""]

\* return { success: false, retry: true, reason }
Failure(reason) == [success |-> FALSE, retry |-> TRUE, reason |-> reason, chatUrl |-> ""]
Success(url) == [success |-> TRUE, retry |-> FALSE, reason |-> "none", chatUrl |-> url]

\* The procedure's local variables end with the invocation.
EndLocals ==
  /\ elapsed' = 0
  /\ chatUrl' = ""
  /\ redoClicks' = 0
  /\ selection' = "none"
  /\ caught' = "none"

Return(r) ==
  /\ EndLocals
  /\ result' = r
  /\ outcomes' = Append(outcomes, IF r.success THEN "success"
                                  ELSE IF r.retry THEN "retry" ELSE "fatal")
  /\ pc' = "loopResult"
  /\ UNCHANGED thrownIn

\* The exception leaves the procedure; main() does not catch it.
Escape(where) ==
  /\ EndLocals
  /\ outcomes' = Append(outcomes, "threw")
  /\ Throw(where)
  /\ UNCHANGED result

\* One call of page.close(): it returns, or it throws and leaves the page
\* open or closed.
PageClose(ok, closedAfter) ==
  /\ pageCloseCalls' = pageCloseCalls + 1
  /\ page' = IF ok \/ closedAfter THEN "closed" ELSE page
  /\ openPages' = IF (ok \/ closedAfter) /\ page = "open" THEN openPages - 1 ELSE openPages

\* The catch block an exception inside the procedure's try block reaches.
CatchBlock(mode) == IF mode = "pro" THEN "pro_catch" ELSE "dr_catch"

Catch(message) ==
  /\ caught' = message
  /\ pc' = CatchBlock(task.mode)

(* ---- setupPage ----------------------------------------------------------- *)
\* setupPage is called before the procedure's try block: what it throws
\* leaves the procedure.
SetupThrow == Escape("setupPage")

SetupNewPage ==
  /\ pc = "setup_newPage"
  /\ \/ /\ page' = "open"
        /\ openPages' = openPages + 1
        /\ pc' = "setup_goto"
        /\ UNCHANGED <<localVars, endVars>>
     \/ /\ SetupThrow
        /\ UNCHANGED <<page, openPages>>
  /\ UNCHANGED <<procVars, notifVars, pageCloseCalls>>

\* A later step of setupPage: it returns or throws.
SetupStep(here, next) ==
  /\ pc = here
  /\ \/ /\ pc' = next
        /\ UNCHANGED <<localVars, endVars>>
     \/ SetupThrow
  /\ UNCHANGED <<procVars, notifVars, pageVars>>

\* page.goto and the settle wait.
SetupGoto == SetupStep("setup_goto", "setup_cookie")

\* Cookie consent: isVisible never throws; the click and the wait may.
SetupCookie == SetupStep("setup_cookie", "setup_waitInput")

\* page.waitForSelector for the input surface, 15 s; then the try block.
SetupWaitInput ==
  SetupStep("setup_waitInput", IF task.mode = "pro" THEN "pro_select" ELSE "dr_tools")

(* ---- runProMode ---------------------------------------------------------- *)
\* What the model label can read: Pro, another model, or '' when
\* textContent() fails.
ModelTexts == {"Pro", "Flash", ""}

AfterModelTextNoReturn(modelText) == "pro_menu"

\* if (modelText.includes('Pro')) return;
AfterModelText(modelText) == IF modelText = "Pro" THEN "pro_readPrompt" ELSE "pro_menu"

\* selectProModel, first step: read the current model's label.
\* selectProModel runs inside its own try/catch in runProMode: whatever it
\* throws is logged and runProMode goes on to read the prompt.
ProSelect ==
  /\ pc = "pro_select"
  /\ \E modelText \in ModelTexts :
       /\ selection' = IF modelText = "Pro" THEN "already" ELSE "none"
       /\ pc' = AfterModelText(modelText)
  /\ UNCHANGED <<procVars, notifVars, pageVars, endVars, elapsed, chatUrl, redoClicks,
                 caught>>

\* Wait for the model selector, click it, wait: the menu opens, or the step
\* throws with the menu opened or not.
ProMenu ==
  /\ pc = "pro_menu"
  /\ \/ /\ selection' = "menu"
        /\ pc' = "pro_option"
     \/ /\ \E opened \in BOOLEAN : selection' = IF opened THEN "failed_menu" ELSE "failed"
        /\ pc' = "pro_readPrompt"
  /\ UNCHANGED <<procVars, notifVars, pageVars, endVars, elapsed, chatUrl, redoClicks,
                 caught>>

\* Wait for the Pro option, click it, wait.
ProOption ==
  /\ pc = "pro_option"
  /\ \/ selection' = "selected"
     \/ selection' = "failed_menu"
  /\ pc' = "pro_readPrompt"
  /\ UNCHANGED <<procVars, notifVars, pageVars, endVars, elapsed, chatUrl, redoClicks,
                 caught>>

\* readPrompt(task.promptFile) inside an attempt, with the file as it is
\* found then.
ReadPromptStep(here, next) ==
  /\ pc = here
  /\ \E f \in FileStates :
       IF ReadPromptError(f) = ""
         THEN /\ pc' = next
              /\ UNCHANGED caught
         ELSE Catch(ReadPromptError(f))
  /\ selection' = "none"
  /\ UNCHANGED <<procVars, notifVars, pageVars, endVars, elapsed, chatUrl, redoClicks>>

ProReadPrompt == ReadPromptStep("pro_readPrompt", "pro_fill")

\* /\/app\/[a-f0-9]+/.test(url)
HasConversationId(url) == url = "https://gemini.google.com/app/abc123"

\* Find the input area, click, fill, press Enter; then chatUrl = page.url().
ProFill ==
  /\ pc = "pro_fill"
  /\ \/ /\ \E u \in Urls :
             /\ chatUrl' = u
             /\ hist' = [hist EXCEPT !.lastUrl = u]
        /\ elapsed' = 0
        /\ pc' = "pro_poll"
        /\ UNCHANGED caught
     \/ /\ Catch("driver error")
        /\ UNCHANGED <<elapsed, chatUrl, hist>>
  /\ UNCHANGED <<mainVars, notifVars, pageVars, endVars, redoClicks, selection>>

PollCondInclusive == elapsed <= maxWait

\* while (elapsed < maxWait)
PollCond == elapsed < maxWait

\* One read of page.url() inside the loop.
ReadUrl(u) ==
  /\ chatUrl' = u
  /\ hist' = [hist EXCEPT !.lastUrl = u, !.urlReads = @ + 1]

\* The URL loop: read the URL, break on a conversation id, else wait
\* checkInterval and add it to elapsed.
ProPoll ==
  /\ pc = "pro_poll"
  /\ IF PollCond
       THEN \/ \E u \in Urls :
                 /\ ReadUrl(u)
                 /\ IF HasConversationId(u)
                      THEN /\ pc' = "pro_notify"
                           /\ UNCHANGED elapsed
                      ELSE /\ elapsed' = elapsed + urlCheckInterval
                           /\ pc' = "pro_poll"
                 /\ UNCHANGED caught
            \/ /\ \E u \in {v \in Urls : ~HasConversationId(v)} : ReadUrl(u)
               /\ Catch("driver error")
               /\ UNCHANGED elapsed
       ELSE /\ pc' = "pro_notify"
            /\ UNCHANGED <<elapsed, chatUrl, caught, hist>>
  /\ UNCHANGED <<mainVars, notifVars, pageVars, endVars, redoClicks, selection>>

\* Send Telegram notification if enabled.
ProNotify ==
  /\ pc = "pro_notify"
  /\ IF NotifyEnabled(task)
       THEN \E d \in Deliveries :
              /\ notifySuccess(task.name, chatUrl, d)
              /\ IF Rejects(d)
                   THEN Catch("notify error")
                   ELSE /\ pc' = "pro_close"
                        /\ UNCHANGED caught
       ELSE /\ pc' = "pro_close"
            /\ UNCHANGED <<notifVars, caught>>
  /\ UNCHANGED <<procVars, pageVars, endVars, pollVars>>

\* await page.close(); return r -- inside the procedure's try block.
CloseAndReturn(here, r) ==
  /\ pc = here
  /\ \/ /\ PageClose(TRUE, TRUE)
        /\ Return(r)
     \/ /\ \E closedAfter \in BOOLEAN : PageClose(FALSE, closedAfter)
        /\ Catch("driver error")
        /\ UNCHANGED <<endVars, elapsed, chatUrl, redoClicks, selection>>
  /\ UNCHANGED <<procVars, notifVars>>

\* await page.close(); return { success: true, chatUrl }
ProClose == CloseAndReturn("pro_close", Success(chatUrl))

\* catch (error): log, page.close(), return a retryable failure.
CatchStep(here, where) ==
  /\ pc = here
  /\ hist' = [hist EXCEPT !.catchRan = TRUE]
  /\ \/ /\ PageClose(TRUE, TRUE)
        /\ Return(Failure(caught))
     \/ /\ \E closedAfter \in BOOLEAN : PageClose(FALSE, closedAfter)
        /\ Escape(where)
  /\ UNCHANGED <<mainVars, notifVars>>

ProCatch == CatchStep("pro_catch", "runProMode")

(* ---- runDeepResearchMode ------------------------------------------------- *)
\* A driver step inside the try block: it returns, or throws into the catch.
DriverStep(here, next) ==
  /\ pc = here
  /\ \/ /\ pc' = next
        /\ UNCHANGED caught
     \/ Catch("driver error")
  /\ UNCHANGED <<procVars, notifVars, pageVars, endVars, elapsed, chatUrl, redoClicks,
                 selection>>

\* Wait for the Tools span, click it.
DrTools == DriverStep("dr_tools", "dr_option")

\* Wait for the Deep Research option, click it.
DrOption == DriverStep("dr_option", "dr_readPrompt")

DrReadPrompt == ReadPromptStep("dr_readPrompt", "dr_fill")

\* Find the input area, click, fill, press Enter.
DrFill == DriverStep("dr_fill", "dr_waitStart")

AfterStartWaitFallThrough(how) == "dr_clickStart"

\* Where runDeepResearchMode goes after the wait for "Start research".
AfterStartWait(how) == IF how = "visible" THEN "dr_clickStart" ELSE "dr_derailedClose"

\* startResearchButton.waitFor inside its own try/catch.
DrWaitStart ==
  /\ pc = "dr_waitStart"
  /\ \E how \in {"visible", "timeout"} :
       /\ hist' = [hist EXCEPT !.startWait = how]
       /\ pc' = AfterStartWait(how)
  /\ UNCHANGED <<mainVars, notifVars, pageVars, endVars, localVars>>

DrDerailedClose == CloseAndReturn("dr_derailedClose", Failure("derailed"))

\* Click Start research and enter waitForDeepResearchResponse.
DrClickStart ==
  /\ pc = "dr_clickStart"
  /\ \/ /\ elapsed' = 0
        /\ hist' = [hist EXCEPT !.startClick = TRUE, !.wtrace = <<"Polling">>]
        /\ pc' = "w_poll"
        /\ UNCHANGED caught
     \/ /\ Catch("driver error")
        /\ hist' = [hist EXCEPT !.startClick = TRUE]
        /\ UNCHANGED elapsed
  /\ UNCHANGED <<mainVars, notifVars, pageVars, endVars, chatUrl, redoClicks, selection>>

(* ---- waitForDeepResearchResponse ----------------------------------------- *)
\* researchStarted: one of the success indicators is in the snapshot.
ResearchStarted(c) == c \in {"success", "both"}
\* the high-traffic indicators
HighTraffic(c) == c \in {"hightraffic", "both"}

ClassifyHighTrafficFirst(c) ==
  IF HighTraffic(c) THEN "w_backoff"
  ELSE IF ResearchStarted(c) THEN "w_successClose"
  ELSE "w_sleep"

\* What the watcher does with one snapshot: success is tested first.
Classify(c) ==
  IF ResearchStarted(c) THEN "w_successClose"
  ELSE IF HighTraffic(c) THEN "w_backoff"
  ELSE "w_sleep"

ShowableAlways == Contents

\* Snapshots the environment may show: with finite traffic, high traffic
\* until MaxRedo clicks.
Showable ==
  {c \in Contents :
     (Classify(c) = "w_backoff" /\ traffic = "finite") => redoClicks < MaxRedo}

\* Redo clicks are counted, and the watcher's states recorded, for the first
\* MaxRedo recoveries of a watcher run.
CountRedo(n) == IF n < MaxRedo THEN n + 1 ELSE n
Record(w, states) == IF Len(w) < 2 * MaxRedo + 2 THEN w \o states ELSE w

\* The watcher state a snapshot leads to, none when polling goes on.
WatcherState(next) ==
  IF next = "w_successClose" THEN <<"Succeeded">>
  ELSE IF next = "w_backoff" THEN <<"HighTrafficBackoff">>
  ELSE <<>>

WatchCondInclusive == elapsed <= responseTimeout

\* while (elapsed < maxWaitTime)
WatchCond == elapsed < responseTimeout

\* The polling loop: take a snapshot and classify it, or time out.
WPoll ==
  /\ pc = "w_poll"
  /\ IF WatchCond
       THEN \/ /\ \E c \in Showable :
                    /\ pc' = Classify(c)
                    /\ hist' = [hist EXCEPT !.snapshots = @ + 1,
                                            !.content = c,
                                            !.wtrace = Record(@, WatcherState(Classify(c)))]
               /\ UNCHANGED caught
            \/ /\ Catch("driver error")
               /\ UNCHANGED hist
       ELSE /\ pc' = "w_timeoutClose"
            /\ hist' = [hist EXCEPT !.wtrace = Record(@, <<"TimedOut">>)]
            /\ UNCHANGED caught
  /\ UNCHANGED <<mainVars, notifVars, pageVars, endVars, elapsed, chatUrl, redoClicks,
                 selection>>

\* await page.waitForTimeout(CONFIG.highTrafficWait)
WBackoff == DriverStep("w_backoff", "w_redo")

WRedoKeepsElapsed ==
  /\ pc = "w_redo"
  /\ \/ /\ redoClicks' = CountRedo(redoClicks)
        /\ hist' = [hist EXCEPT !.redo = CountRedo(@), !.snapshots = 0,
                                !.wtrace = Record(@, <<"Polling">>)]
        /\ pc' = "w_poll"
        /\ UNCHANGED elapsed
     \/ /\ pc' = "w_redoClose"
        /\ hist' = [hist EXCEPT !.wtrace = Record(@, <<"RecoveryFailed">>)]
        /\ UNCHANGED <<redoClicks, elapsed>>
  /\ UNCHANGED <<mainVars, notifVars, pageVars, endVars, chatUrl, selection, caught>>

WRedoDoubleClick ==
  /\ pc = "w_redo"
  /\ \/ /\ redoClicks' = redoClicks + 2
        /\ elapsed' = 0
        /\ hist' = [hist EXCEPT !.redo = @ + 2, !.snapshots = 0,
                                !.wtrace = Append(@, "Polling")]
        /\ pc' = "w_poll"
     \/ /\ pc' = "w_redoClose"
        /\ hist' = [hist EXCEPT !.wtrace = Append(@, "RecoveryFailed")]
        /\ UNCHANGED <<redoClicks, elapsed>>
  /\ UNCHANGED <<mainVars, notifVars, pageVars, endVars, chatUrl, selection, caught>>

\* Wait for the Redo button and click it, inside its own try/catch; after
\* the click elapsed is reset and a new polling window starts.
WRedo ==
  /\ pc = "w_redo"
  /\ \/ /\ redoClicks' = CountRedo(redoClicks)
        /\ elapsed' = 0
        /\ hist' = [hist EXCEPT !.redo = CountRedo(@), !.snapshots = 0,
                                !.wtrace = Record(@, <<"Polling">>)]
        /\ pc' = "w_poll"
     \/ /\ pc' = "w_redoClose"
        /\ hist' = [hist EXCEPT !.wtrace = Record(@, <<"RecoveryFailed">>)]
        /\ UNCHANGED <<redoClicks, elapsed>>
  /\ UNCHANGED <<mainVars, notifVars, pageVars, endVars, chatUrl, selection, caught>>

WRedoCloseAsTimeout == CloseAndReturn("w_redoClose", Failure("response_timeout"))

\* catch (e): await page.close(); return { ..., reason: 'redo_not_found' }
WRedoClose == CloseAndReturn("w_redoClose", Failure("redo_not_found"))

WSuccessClose == CloseAndReturn("w_successClose", Success(""))

\* await page.waitForTimeout(checkInterval); elapsed += checkInterval
WSleep ==
  /\ pc = "w_sleep"
  /\ \/ /\ elapsed' = elapsed + checkInterval
        /\ pc' = "w_poll"
        /\ UNCHANGED caught
     \/ /\ Catch("driver error")
        /\ UNCHANGED elapsed
  /\ UNCHANGED <<procVars, notifVars, pageVars, endVars, chatUrl, redoClicks, selection>>

WTimeoutClose == CloseAndReturn("w_timeoutClose", Failure("response_timeout"))

DrCatch == CatchStep("dr_catch", "runDeepResearchMode")

(* ---- specification ------------------------------------------------------- *)
Next ==
  \/ WrapperStart \/ WrapperExit
  \/ Launch \/ LoginNewPage \/ LoginWait \/ GetTask \/ ValidatePrompt
  \/ ContextClose \/ MainCatch
  \/ LoopHead \/ LoopResult \/ Pause \/ AfterLoop
  \/ SetupNewPage \/ SetupGoto \/ SetupCookie \/ SetupWaitInput
  \/ ProSelect \/ ProMenu \/ ProOption \/ ProReadPrompt \/ ProFill \/ ProPoll \/ ProNotify \/ ProClose \/ ProCatch
  \/ DrTools \/ DrOption \/ DrReadPrompt \/ DrFill \/ DrWaitStart \/ DrDerailedClose
  \/ DrClickStart
  \/ WPoll \/ WBackoff \/ WRedo \/ WRedoClose \/ WSuccessClose \/ WSleep \/ WTimeoutClose
  \/ DrCatch

Spec == Init /\ [][Next]_vars

\* Every awaited operation returns or fails in finite time and node keeps
\* running main(): a step that can be taken is taken.
\* Pro runs are explored with notifications off here: a notifier call only
\* adds a record (C17), and the records of five attempts multiply the states.
FairInit == Init /\ (config.mode = "pro" => config.notify = "false")

FairSpec == FairInit /\ [][Next]_vars /\ WF_vars(Next)

(* ---- a service that is always busy ----------------------------------------- *)
\* A Deep Research run against a service that may show high traffic any
\* number of times.
EndlessInit ==
  /\ RunnerInit
  /\ argv = [via |-> "direct", loginOnly |-> FALSE, taskGiven |-> TRUE]
  /\ config.kind = "task"
  /\ config.mode = "deep-research"
  /\ config.promptFileSet
  /\ config.scheduleOk
  /\ promptFile = "ok"
  /\ traffic = "endless"
  /\ tasks = <<>>
  /\ generated = 0
  /\ plistsDir = {}
  /\ launchAgents = {}
  /\ setupPc = "idle"

\* Inside the watcher the driver does not fail, no snapshot shows a success
\* indicator, and every polling window shows high traffic before it runs
\* out, with the Redo control there to click.
EndlessPoll ==
  /\ WPoll
  /\ \/ pc' = "w_backoff"
     \/ pc' = "w_sleep" /\ elapsed + checkInterval < responseTimeout
EndlessSleep == WSleep /\ pc' = "w_poll"
EndlessBackoff == WBackoff /\ pc' = "w_redo"
EndlessRedo == WRedo /\ pc' = "w_poll"

EndlessNext ==
  \/ Launch \/ GetTask \/ ValidatePrompt \/ ContextClose \/ MainCatch
  \/ LoopHead \/ LoopResult \/ Pause \/ AfterLoop
  \/ SetupNewPage \/ SetupGoto \/ SetupCookie \/ SetupWaitInput
  \/ DrTools \/ DrOption \/ DrReadPrompt \/ DrFill \/ DrWaitStart \/ DrDerailedClose
  \/ DrClickStart \/ DrCatch
  \/ EndlessPoll \/ EndlessSleep \/ EndlessBackoff \/ EndlessRedo

EndlessSpec == EndlessInit /\ [][EndlessNext]_vars /\ WF_vars(EndlessNext)

(* ---- setup.sh: plist generation ------------------------------------------- *)
\* Characters of task names: a lower-case letter, an upper-case letter, a
\* digit, a space and a hyphen.
Chars == {"a", "A", "1", " ", "-"}

\* Task names: non-empty strings, as sequences of characters.
Names == UNION {[1..n -> Chars] : n \in 1..MaxNameLen}

\* String.prototype.toLowerCase on one character.
toLowerCase(c) == IF c = "A" THEN "a" ELSE c

\* The character class [a-z0-9].
IsAlnum(c) == c \in {"a", "1"}

RECURSIVE SkipRun(_)
\* Drop the leading characters outside [a-z0-9].
SkipRun(s) ==
  IF s = <<>> \/ IsAlnum(Head(s)) THEN s ELSE SkipRun(Tail(s))

RECURSIVE ReplaceRuns(_)
\* .replace(/[^a-z0-9]+/g, '-'): every maximal run becomes one hyphen.
ReplaceRuns(s) ==
  IF s = <<>> THEN <<>>
  ELSE IF IsAlnum(Head(s)) THEN <<Head(s)>> \o ReplaceRuns(Tail(s))
  ELSE <<"-">> \o ReplaceRuns(SkipRun(s))

\* .replace(/^-|-$/g, ''): one hyphen off the start, one off the end.
StripHyphens(s) ==
  LET t == IF s # <<>> /\ Head(s) = "-" THEN Tail(s) ELSE s
  IN  IF t # <<>> /\ t[Len(t)] = "-" THEN SubSeq(t, 1, Len(t) - 1) ELSE t

\* const slug = task.name.toLowerCase().replace(...).replace(...)
slugify(name) ==
  StripHyphens(ReplaceRuns([i \in 1..Len(name) |-> toLowerCase(name[i])]))

\* 'gemini-task-' + slug + '.plist'
PlistName(slug) == <<"gemini-task-">> \o slug \o <<".plist">>

\* fs.writeFileSync: the file is created, or its content replaced.
WriteFile(dir, file, content) ==
  {f \in dir : f.file # file} \cup {[file |-> file, task |-> content]}

\* tasks.yaml lists two tasks with distinct names; LaunchAgents and plists/
\* may hold a plist of an earlier setup.
SetupInit ==
  /\ RunnerInit
  /\ argv = [via |-> "wrapper", loginOnly |-> FALSE, taskGiven |-> TRUE]
  /\ config = [kind |-> "task", mode |-> "pro", promptFileSet |-> TRUE,
               scheduleOk |-> TRUE, notify |-> "undefined"]
  /\ promptFile = "ok"
  /\ traffic = "finite"
  /\ tasks \in {t \in [1..2 -> Names] : t[1] # t[2]}
  /\ generated = 0
  /\ \E old \in SUBSET {[file |-> PlistName(<<"a">>), task |-> <<"a">>]} :
       /\ plistsDir = old
       /\ launchAgents = old
  /\ setupPc = "clean"

runnerVars == <<inputVars, fileVars, pc, task, browserVars, loopVars, pollVars, notifVars,
                logged, exitVars, caught, hist, thrownIn>>

\* Unload and remove the old gemini-task plists; clear plists/.
SetupClean ==
  /\ setupPc = "clean"
  /\ launchAgents' = {}
  /\ plistsDir' = {}
  /\ setupPc' = "generate"
  /\ UNCHANGED <<runnerVars, tasks, generated>>

\* One round of tasks.forEach: write the task's plist file.
GeneratePlist ==
  /\ setupPc = "generate"
  /\ generated < Len(tasks)
  /\ plistsDir' = WriteFile(plistsDir, PlistName(slugify(tasks[generated + 1])),
                            tasks[generated + 1])
  /\ generated' = generated + 1
  /\ setupPc' = IF generated + 1 = Len(tasks) THEN "install" ELSE "generate"
  /\ UNCHANGED <<runnerVars, tasks, launchAgents>>

\* Copy every plist of plists/ to LaunchAgents and load it.
InstallPlists ==
  /\ setupPc = "install"
  /\ launchAgents' = launchAgents \cup plistsDir
  /\ setupPc' = "complete"
  /\ UNCHANGED <<runnerVars, tasks, generated, plistsDir>>

SetupNext == SetupClean \/ GeneratePlist \/ InstallPlists

SetupSpec == SetupInit /\ [][SetupNext]_vars

(* ---- properties ---------------------------------------------------------- *)
\* The node process has exited.
Terminated == exitCode # -1
TaskRun == ~argv.loginOnly
\* The running invocation has ended, by a return or by an exception.
InvocationEnded == invocations > 0 /\ Len(outcomes) = invocations
Kinds(k) == {i \in DOMAIN notifs : notifs[i].kind = k}
AllRetry(n) == Len(outcomes) = n /\ \A i \in DOMAIN outcomes : outcomes[i] = "retry"

\* C1: at most maxRetries (5) procedure invocations per run, and the
\* invocation that returned success is the last one of the run.
C1_AttemptBound ==
  /\ invocations <= 5
  /\ \A i \in DOMAIN outcomes : outcomes[i] = "success" => invocations = i

\* A run whose fifth invocation returned success has exited.
C1_Witness ==
  /\ Terminated
  /\ invocations = 5
  /\ Len(outcomes) = 5
  /\ outcomes[5] = "success"

\* C2: no exception of an attempt leaves the procedure uncaught: every
\* invocation ends with a result the attempt loop handles.
C2_NoUncaughtInAttempt ==
  \A i \in DOMAIN outcomes : outcomes[i] # "threw"

\* C3: when the wait for the input surface in setupPage does not succeed,
\* the procedure returns a failure with retry = true to the attempt loop.
C3_InputTimeoutReturnsRetry ==
  [][(pc = "setup_waitInput" /\ pc' \notin {"pro_select", "dr_tools"})
       => (pc' = "loopResult" /\ ~result'.success /\ result'.retry)]_vars

\* C4: when an invocation that opened a page has ended, page.close() was
\* called exactly once for that page and the page is closed.
C4_PageClosedExactlyOnce ==
  (InvocationEnded /\ page # "none") => (pageCloseCalls = 1 /\ page = "closed")

\* C5 as claimed: with notifications enabled, in both modes, a success
\* result comes with a success notification for the task.
C5_SuccessNotifiedBothModes ==
  (task.notify # "false" /\ result.success) => Kinds("success") # {}

\* C5 as amended: in pro mode a success result comes with a success
\* notification carrying the task name and the chat URL of the result; a
\* deep-research run sends no success notification.
C5_ProSuccessNotified ==
  /\ (task.mode = "pro" /\ task.notify # "false" /\ result.success) =>
       /\ notifs # <<>>
       /\ notifs[Len(notifs)] = [kind |-> "success", task |-> task.name,
                                 detail |-> result.chatUrl, at |-> invocations]
  /\ task.mode = "deep-research" => Kinds("success") = {}

\* A pro run with notifications enabled (notify absent) that exited 0.
C5_Witness ==
  /\ task.mode = "pro"
  /\ task.notify = "undefined"
  /\ result.success
  /\ Terminated
  /\ exitCode = 0

\* C6: at most one notification per run, and no invocation starts after a
\* notification was sent.
C6_OneFinalNotification ==
  /\ Len(notifs) <= 1
  /\ \A i \in DOMAIN notifs : notifs[i].at = invocations

FailureLines == {"ERROR: Prompt file not found", "ERROR: Prompt file is empty",
                 "ERROR: Unknown mode", "FAILED: Giving up", "FATAL ERROR"}

\* C7: with notify = false nothing is handed to the Notifier, and a run of
\* the task that ends in failure has logged the failure.
C7_NotifyFalseSilent ==
  task.notify = "false" =>
    /\ notifs = <<>>
    /\ (Terminated /\ exitCode = 1) => logged \cap FailureLines # {}

\* A run with notify = false that used up its five attempts and exited 1.
C7_Witness ==
  /\ task.notify = "false"
  /\ Terminated
  /\ exitCode = 1
  /\ AllRetry(5)
  /\ "FAILED: Giving up" \in logged

\* C8: after five retryable failures the run sends exactly one failure
\* notification "Failed after 5 attempts" (none with notify = false), calls
\* context.close() once and exits 1; while attempts run, no failure
\* notification has been sent.
C8_ExhaustedNotifiesOnce ==
  /\ (Terminated /\ AllRetry(5)) =>
       /\ exitCode = 1
       /\ contextCloseCalls = 1
       /\ Cardinality(Kinds("failure")) = IF task.notify # "false" THEN 1 ELSE 0
       /\ \A i \in Kinds("failure") :
            /\ i = Len(notifs)
            /\ notifs[i].detail = "Failed after 5 attempts"
            /\ notifs[i].task = task.name
  /\ (invocations > 0 /\ pc \notin {"closing", "catch", "exited", "done"}) =>
       Kinds("failure") = {}

\* A run with notifications enabled that used up its five attempts.
C8_Witness ==
  /\ Terminated
  /\ AllRetry(5)
  /\ task.notify = "true"
  /\ context = "closed"
  /\ Len(notifs) = 1

\* C10: a task run exits 0 exactly if some attempt returned success and
\* exits 1 otherwise; the wrapper exits with the code of node, and with 1
\* when it is given neither a task nor --login-only.
C10_ExitCode ==
  /\ (TaskRun /\ Terminated) =>
       /\ exitCode \in {0, 1}
       /\ exitCode = 0 <=> (\E i \in DOMAIN outcomes : outcomes[i] = "success")
  /\ (TaskRun /\ pc = "done") =>
       wrapperExit = IF exitCode = -1 THEN 1 ELSE exitCode

\* The run was asked for a task whose tasks.yaml entry is found.
TaskFound == TaskRun /\ argv.taskGiven /\ config.kind = "task"
PromptErrors == {"Prompt file not found", "Prompt file is empty"}

\* C11: for a task whose mode is neither pro nor deep-research the attempt
\* loop is never entered: no procedure invocation, no page opened, and the
\* run exits with code 1.
C11_UnknownModeNoAttempt ==
  (TaskFound /\ config.mode \notin {"pro", "deep-research"}) =>
    /\ attempt = 0
    /\ invocations = 0
    /\ page = "none"
    /\ openPages = 0
    /\ Terminated => exitCode = 1

\* A run for a task of mode "fast" has exited after getTask rejected it.
C11_Witness ==
  /\ TaskFound
  /\ config.mode = "fast"
  /\ Terminated
  /\ exitCode = 1
  /\ "ERROR: Invalid mode" \in logged

\* C12: when the prompt file of a valid task is absent or blank at run
\* start, no browser session is launched, no page is opened, no attempt is
\* made, and the run exits with code 1.
C12_BadPromptNoBrowser ==
  (TaskFound /\ GetTaskError(config) = "" /\ promptFile # "ok") =>
    /\ context = "none"
    /\ invocations = 0
    /\ openPages = 0
    /\ Terminated => exitCode = 1

\* C13: a result whose reason is a prompt-load failure is not retryable,
\* and no invocation follows it.
C13_PromptFailureFatal ==
  result.reason \in PromptErrors =>
    /\ ~result.retry
    /\ invocations = Len(outcomes)

\* C16: a run for a loaded task with notifications enabled that exits
\* with a non-zero code has sent a failure notification.
C16_FailureAlwaysNotified ==
  (Terminated /\ exitCode # 0 /\ task # NoTask /\ task.notify # "false") =>
    Kinds("failure") # {}

(* ---- the response watcher ------------------------------------------------- *)
LastState(w) == IF Len(w) = 0 THEN "none" ELSE w[Len(w)]

\* The procedure has just returned its result to main().
Returned == pc = "loopResult"

\* ... and its catch block did not run.
ReturnedNormally == Returned /\ ~hist.catchRan

\* High-traffic detections of the watcher run that were followed by a return
\* to polling.
Recoveries(w) ==
  Cardinality({i \in 1..(Len(w) - 1) : w[i] = "HighTrafficBackoff" /\ w[i + 1] = "Polling"})

\* The watcher's states follow Polling -> {Succeeded, HighTrafficBackoff,
\* TimedOut} and HighTrafficBackoff -> {Polling, RecoveryFailed}.
LegalTrace(w) ==
  \A i \in 1..(Len(w) - 1) :
    \/ w[i] = "Polling" /\ w[i + 1] \in {"Succeeded", "HighTrafficBackoff", "TimedOut"}
    \/ w[i] = "HighTrafficBackoff" /\ w[i + 1] \in {"Polling", "RecoveryFailed"}

RecoveredRun == <<"Polling", "HighTrafficBackoff", "Polling", "Succeeded">>

\* C14: the watcher's states follow its state diagram; the number of Redo
\* clicks of a watcher run equals the number of high-traffic detections that
\* were followed by a return to polling; and a run that went Polling ->
\* HighTrafficBackoff -> Polling -> Succeeded has clicked Redo exactly once
\* and, when its page.close() returns, returns success=true.
C14_RedoOncePerRecovery ==
  /\ LegalTrace(hist.wtrace)
  /\ hist.redo = Recoveries(hist.wtrace)
  /\ pc \in {"w_poll", "w_backoff", "w_redo", "w_sleep"} => redoClicks = hist.redo
  /\ hist.wtrace = RecoveredRun =>
       /\ hist.redo = 1
       /\ ReturnedNormally => result = Success("")

C14_Witness ==
  /\ hist.wtrace = RecoveredRun
  /\ ReturnedNormally
  /\ result.success
  /\ hist.redo = 1

\* C15: a watcher run that times out has taken exactly
\* responseTimeout/checkInterval snapshots in its polling window, and returns
\* {success:false, retry:true, reason:'response_timeout'} when page.close()
\* returns; a Deep Research attempt returns success only after a snapshot
\* matched a success pattern.
C15_TimeoutAfterSixtySnapshots ==
  /\ LastState(hist.wtrace) = "TimedOut" =>
       /\ hist.snapshots = responseTimeout \div checkInterval
       /\ ReturnedNormally => result = Failure("response_timeout")
  /\ (Returned /\ task.mode = "deep-research" /\ result.success) =>
       LastState(hist.wtrace) = "Succeeded"

C15_Witness ==
  /\ hist.wtrace = <<"Polling", "TimedOut">>
  /\ hist.snapshots = 60
  /\ ReturnedNormally
  /\ result = Failure("response_timeout")

(* ---- the Pro URL poll ----------------------------------------------------- *)
\* C18: the Pro URL loop reads the URL at most maxWait/checkInterval times;
\* an attempt whose reads all lacked a conversation id, and in which no
\* driver call failed, returns success=true with chatUrl the last URL read.
C18_UrlTimeoutNotFatal ==
  /\ hist.urlReads <= maxWait \div urlCheckInterval
  /\ ( /\ ReturnedNormally
       /\ task.mode = "pro"
       /\ hist.urlReads = maxWait \div urlCheckInterval
       /\ ~HasConversationId(hist.lastUrl) ) => result = Success(hist.lastUrl)

C18_Witness ==
  /\ ReturnedNormally
  /\ task.mode = "pro"
  /\ hist.urlReads = 60
  /\ ~HasConversationId(hist.lastUrl)
  /\ result.success
  /\ result.chatUrl = hist.lastUrl

(* ---- "Start research" not found ------------------------------------------- *)
\* C19: when the wait for "Start research" times out, the control is never
\* clicked and the watcher is never entered in that attempt, and the attempt
\* returns {success:false, retry:true, reason:'derailed'} with the page
\* closed when page.close() returns.
C19_DerailedWhenStartMissing ==
  hist.startWait = "timeout" =>
    /\ ~hist.startClick
    /\ hist.wtrace = <<>>
    /\ ~ (pc \in {"dr_clickStart", "w_poll", "w_backoff", "w_redo", "w_redoClose",
                  "w_successClose", "w_sleep", "w_timeoutClose"})
    /\ ReturnedNormally =>
         /\ result = Failure("derailed")
         /\ page = "closed"
         /\ pageCloseCalls = 1

C19_Witness ==
  /\ hist.startWait = "timeout"
  /\ ReturnedNormally
  /\ result = Failure("derailed")
  /\ page = "closed"

(* ---- notification delivery ------------------------------------------------ *)
\* A step in which a notifier was called.
NotifyStep == Len(notifs') = Len(notifs) + 1

\* The statement after the notifier call made at the current position.
AfterNotifier == IF pc = "pro_notify" THEN "pro_close" ELSE "closing"

\* C17: whatever the delivery outcome (200, another status, a request error,
\* no credentials), the notifier call returns to the statement that follows
\* it, and everything the run does next (position, attempt counter, results,
\* pending and final exit codes, caught or thrown exceptions, pages) is fixed
\* by the state before the call: only the returned boolean differs.
C17_DeliveryNeverAffectsRun ==
  [][NotifyStep =>
       /\ pc' = AfterNotifier
       /\ pendingExit' = (IF pc = "pro_notify" THEN pendingExit ELSE 1)
       /\ sent' \in BOOLEAN
       /\ UNCHANGED <<setupVars, inputVars, fileVars, task, browserVars, loopVars, pollVars, exitCode,
                      wrapperExit, caught, thrownIn, hist>>]_vars

\* A Pro run whose only notification was not delivered ends as a success.
C17_Witness ==
  /\ Terminated
  /\ Len(notifs) = 1
  /\ sent = FALSE
  /\ result.success
  /\ exitCode = 0

(* ---- one plist per task --------------------------------------------------- *)
\* C20: when setup.sh has finished for tasks with distinct names, every task
\* has its own plist among the installed jobs: as many plists as tasks, and
\* each task's plist runs that task.
C20_OnePlistPerTask ==
  setupPc = "complete" =>
    /\ Cardinality(launchAgents) = Len(tasks)
    /\ \A i \in 1..Len(tasks) :
         [file |-> PlistName(slugify(tasks[i])), task |-> tasks[i]] \in launchAgents

(* ---- success is tested before high traffic -------------------------------- *)
\* C21: a snapshot that holds both a success indicator and a high-traffic
\* indicator makes the watcher Succeeded at once: the step after it is the
\* page close of the success branch (or the catch block, if that close
\* fails), never the backoff wait or the Redo click, no Redo click is added,
\* and the watcher returns success=true when page.close() returns.
C21_SuccessBeforeHighTraffic ==
  hist.content = "both" =>
    /\ LastState(hist.wtrace) = "Succeeded"
    /\ pc \in {"w_successClose", "dr_catch", "loopResult", "catch"}
    /\ hist.redo = Recoveries(hist.wtrace)
    /\ redoClicks \in {0, hist.redo}
    /\ ReturnedNormally => result = Success("")

C21_Witness ==
  /\ hist.content = "both"
  /\ hist.wtrace = <<"Polling", "Succeeded">>
  /\ hist.redo = 0
  /\ ReturnedNormally
  /\ result.success

(* ---- Redo control missing ------------------------------------------------- *)
\* C23: when the Redo control is not found (or its click fails) after a
\* high-traffic detection, the watcher takes no further snapshot: its next
\* step is the page close, and it returns {success:false, retry:true,
\* reason:'redo_not_found'} with the page closed when page.close() returns.
C23_RedoNotFound ==
  LastState(hist.wtrace) = "RecoveryFailed" =>
    /\ pc \in {"w_redoClose", "dr_catch", "loopResult", "catch"}
    /\ hist.content = "hightraffic"
    /\ ReturnedNormally =>
         /\ result = Failure("redo_not_found")
         /\ page = "closed"
         /\ pageCloseCalls = 1

C23_Witness ==
  /\ hist.wtrace = <<"Polling", "HighTrafficBackoff", "RecoveryFailed">>
  /\ ReturnedNormally
  /\ result = Failure("redo_not_found")
  /\ page = "closed"

(* ---- model selection is best-effort --------------------------------------- *)
SelectPcs == {"pro_select", "pro_menu", "pro_option"}

\* C24: no step of selectProModel lets an exception out or changes anything
\* but its own progress: whether it fails at the selector, at the Pro option
\* or at a click, runProMode goes on to read the prompt (and then to fill
\* and submit) from the same state as after a successful selection; and
\* when the label already reads Pro, the steps that open the model menu are
\* never taken.
C24_SelectionSwallowed ==
  /\ [][(pc \in SelectPcs) =>
          /\ pc' \in SelectPcs \cup {"pro_readPrompt"}
          /\ UNCHANGED <<mainVars, hist, notifVars, pageVars, endVars, elapsed, chatUrl,
                         redoClicks, caught>>]_vars
  /\ [][pc = "pro_readPrompt" =>
          /\ selection' = "none"
          /\ pc' \in {"pro_fill", "pro_catch"}]_vars
  /\ [](selection = "already" => pc = "pro_readPrompt")
  /\ [](pc = "pro_readPrompt" => selection \in {"already", "selected", "failed",
                                                "failed_menu"})

\* selectProModel failed with the menu open and runProMode is about to read
\* the prompt, with no exception caught.
C24_Witness ==
  /\ pc = "pro_readPrompt"
  /\ selection = "failed_menu"
  /\ caught = "none"
  /\ page = "open"

(* ---- attempts are sequential ---------------------------------------------- *)
\* main() has left the attempt loop for good.
LoopLeft == pc \in {"closing", "afterLoop", "catch", "exited", "done"}

\* C25: the attempt counter is set to 1 when the loop is entered and grows
\* by exactly 1, only when main() takes a retryable failure; a procedure is
\* invoked only from the loop head, which is reached from the start-up or
\* from the pause, with attempt one more than the invocations so far, every
\* earlier invocation returned and its page closed; at most one page is open
\* at any moment of a task run; and once main() has left the loop no
\* invocation starts and the counter stays.
C25_AttemptsSequential ==
  /\ [][attempt' # attempt =>
          \/ /\ pc = "validate"
             /\ attempt = 0
             /\ attempt' = 1
          \/ /\ pc = "loopResult"
             /\ ResultBranch(result) = "retry"
             /\ attempt' = attempt + 1
             /\ pc' = "pause"]_vars
  /\ [][pc' = "loopHead" => pc \in {"validate", "pause", "loopHead"}]_vars
  /\ [][invocations' # invocations =>
          /\ pc = "loopHead"
          /\ invocations' = invocations + 1
          /\ attempt = invocations + 1
          /\ Len(outcomes) = invocations
          /\ \A i \in DOMAIN outcomes : outcomes[i] = "retry"
          /\ page \in {"none", "closed"}
          /\ openPages = 0]_vars
  /\ [](TaskRun => openPages <= 1)
  /\ [][LoopLeft => /\ invocations' = invocations
                    /\ attempt' = attempt
                    /\ LoopLeft']_vars

\* The third attempt is running, after two retryable failures.
C25_Witness ==
  /\ attempt = 3
  /\ invocations = 3
  /\ outcomes = <<"retry", "retry">>
  /\ page = "open"
  /\ openPages = 1

(* ---- the loop's dead branches --------------------------------------------- *)
\* C26: every failure a mode procedure returns has retry=true and the task
\* main() holds in the loop has mode pro or deep-research, so main() never
\* takes the non-retryable branch nor the unknown-mode branch; and a run
\* that entered the loop and exited with no success and no exception out of
\* a procedure has made exactly maxRetries invocations.
C26_DeadBranches ==
  /\ (invocations > 0 /\ ~result.success) => (result = NoResult \/ result.retry)
  /\ \A i \in DOMAIN outcomes : outcomes[i] # "fatal"
  /\ pc = "loopResult" => ResultBranch(result) # "break"
  /\ attempt >= 1 => task.mode \in {"pro", "deep-research"}
  /\ "ERROR: Unknown mode" \notin logged
  /\ \A reason \in {"derailed", "response_timeout", "redo_not_found", "driver error",
                    "Prompt file not found", "Prompt file is empty", "none"} :
       ("FAILED: " \o reason) \notin logged
  /\ ( /\ Terminated
       /\ attempt >= 1
       /\ ~result.success
       /\ \A i \in DOMAIN outcomes : outcomes[i] # "threw" ) => invocations = maxRetries

\* A run that gave up: five invocations, each a retryable failure, exit 1.
C26_Witness ==
  /\ Terminated
  /\ exitCode = 1
  /\ invocations = 5
  /\ outcomes = <<"retry", "retry", "retry", "retry", "retry">>
  /\ thrownIn = "none"

(* ---- termination ---------------------------------------------------------- *)
\* The process has ended: node has exited, or the wrapper has.
Exited == pc \in {"exited", "done"}

InWatcherLoop == pc \in {"w_poll", "w_backoff", "w_redo", "w_sleep"}

\* C22: a Redo click sets elapsed to zero and polling resumes with a whole
\* window (the snapshots of a window are elapsed/checkInterval, at most
\* responseTimeout/checkInterval of them); nothing bounds the number of
\* windows: against a service that shows high traffic in every window, with
\* Redo there to click, the watcher never returns and clicks Redo again and
\* again.
C22_FreshWindowForever ==
  /\ [][(pc = "w_redo" /\ pc' = "w_poll") =>
          /\ elapsed' = 0
          /\ hist'.snapshots = 0]_vars
  /\ [](InWatcherLoop =>
          /\ hist.snapshots * checkInterval \in {elapsed, elapsed + checkInterval}
          /\ hist.snapshots <= responseTimeout \div checkInterval)
  /\ [][InWatcherLoop => InWatcherLoop']_vars
  /\ (pc = "w_poll") ~> (pc = "w_redo")
  /\ (pc = "w_redo") ~> (pc = "w_poll" /\ elapsed = 0)

\* The watcher is polling in a later window, after as many Redo clicks as
\* the model counts.
C22_Witness ==
  /\ traffic = "endless"
  /\ pc = "w_poll"
  /\ redoClicks = MaxRedo
  /\ Len(hist.wtrace) = 2 * MaxRedo + 2
  /\ elapsed > 0

====
